---- MODULE Spec2Model ----
(***************************************************************************)
(* Model of the AION MCP agent glue code:                                  *)
(*   - src/mcp_agent/server/bridge.py : AIONBridge (validate, sanitize,    *)
(*     dispatch) and the single-shot main() process;                       *)
(*   - src/mcp_agent/agent_memory.py  : the event recorder save_to_membase *)
(*     and its local JSON log.                                             *)
(* Python values are tagged records: a str is a sequence of one-character  *)
(* strings, a dict is a function from keys, a list is a sequence.          *)
(***************************************************************************)
EXTENDS Integers, Sequences, FiniteSets, TLC

VARIABLES
    \* --- pure-function harness (validate_input / sanitize_input) ---
    data,          \* the value handed to the function under test
    once,          \* sanitize_input(data), or NotRun / Raised
    twice,         \* sanitize_input(once), or NotRun / Raised
    validation,    \* validate_input(data), or NotRun
    \* --- AIONBridge instance (bridge.py:25-28) ---
    initialized,   \* self.initialized
    error_count,   \* self.error_count
    now,           \* the clock datetime.now() reads
    request,       \* argument of the latest process_request call
    response,      \* what that call returned
    calls,         \* the functions that call invoked, in order, with arguments
    \* --- main() process (bridge.py:213-249) ---
    pc,            \* position of main
    stdin,         \* the text on standard input
    request_data,  \* json.loads(input_data)
    stdout,        \* the documents printed so far
    exit_code,     \* the process's exit status, NoExit while it runs
    \* --- event recorder (agent_memory.py) ---
    procs,         \* the recorder processes that run
    rpc,           \* per process: "start" before the module is loaded, then "loaded"
    local_memory,  \* per process: its local_memory dict, wallet -> list of events
    file,          \* content of ./memory.json, Absent when there is no file
    mm_store,      \* what mm.add has accepted
    kb_store,      \* what kb.add_documents has accepted
    last_call,     \* the latest save_to_membase call: who, which fault, how it ended
    clock          \* the clock created_at reads; counts the calls made

pureVars == <<data, once, twice, validation>>
bridgeVars == <<initialized, error_count, now, request, response, calls>>
mainVars == <<pc, stdin, request_data, stdout, exit_code>>
recVars == <<procs, rpc, local_memory, file, mm_store, kb_store, last_call, clock>>
vars == <<pureVars, bridgeVars, mainVars, recVars>>

\* ------------------------------------------------------------------ bounds

\* Longest input string, counted in runs of one repeated character.
MaxRuns == 3
\* Calls of sanitize_input the interpreter lets nest before RecursionError
\* (sys.getrecursionlimit(), scaled down).
RecursionLimit == 4
\* process_request calls made on one bridge instance.
MaxCalls == 2
\* save_to_membase calls made, over all recorder processes.
MaxSaves == 3

\* ------------------------------------------------------ Python value model

StrV(s) == [t |-> "str", s |-> s]
OtherV(n) == [t |-> "other", n |-> n]
ListV(l) == [t |-> "list", l |-> l]
DictV(d) == [t |-> "dict", d |-> d]
EmptyDict == [k \in {} |-> OtherV(0)]

NotRun == [t |-> "notrun"]
Raised(msg) == [t |-> "raised", error |-> msg]
RecursionError == "maximum recursion depth exceeded"

Rep(c, n) == [i \in 1..n |-> c]

\* ------------------------------------------------- bridge.py: sanitize_input

\* bridge.py:67 (the grave accent cannot be written in a TLA+ string literal:
\* the atom "GRAVE" stands for that one character)
dangerous_chars == {"<", ">", "&", "\"", "'", "GRAVE"}
\* the characters str.strip() removes from both ends
Whitespace == {" ", "\t", "\n", "\r"}
\* bridge.py:70, the [:1000] slice
LengthLimit == 1000

\* Mutant of RemoveDangerous: the ampersand is left in.
RemoveDangerous_KeepsAmp(s) == SelectSeq(s, LAMBDA c : c \notin (dangerous_chars \ {"&"}))

\* bridge.py:68-69: data.replace(char, '') for each dangerous char
RemoveDangerous(s) == SelectSeq(s, LAMBDA c : c \notin dangerous_chars)

\* bridge.py:70: data.strip()
Strip(s) ==
    IF \A i \in 1..Len(s) : s[i] \in Whitespace THEN <<>>
    ELSE LET first == CHOOSE i \in 1..Len(s) :
                          /\ s[i] \notin Whitespace
                          /\ \A j \in 1..(i - 1) : s[j] \in Whitespace
             last == CHOOSE i \in 1..Len(s) :
                          /\ s[i] \notin Whitespace
                          /\ \A j \in (i + 1)..Len(s) : s[j] \in Whitespace
         IN SubSeq(s, first, last)

\* bridge.py:70: [:1000]
Truncate(s) == IF Len(s) <= LengthLimit THEN s ELSE SubSeq(s, 1, LengthLimit)

\* bridge.py:65-70: the str branch: delete, then strip, then truncate
SanitizeStr(s) == Truncate(Strip(RemoveDangerous(s)))

\* bridge.py:63-76
RECURSIVE sanitize_input(_)
sanitize_input(v) ==
    IF v.t = "str" THEN StrV(SanitizeStr(v.s))
    ELSE IF v.t = "dict" THEN DictV([k \in DOMAIN v.d |-> sanitize_input(v.d[k])])
    ELSE IF v.t = "list" THEN ListV([i \in 1..Len(v.l) |-> sanitize_input(v.l[i])])
    ELSE v

SetMax(S) == CHOOSE m \in S : \A x \in S : x <= m

\* Frames of sanitize_input live at once while v is sanitized: one per level
\* of nesting (bridge.py:72 and :74 recurse into every element).
RECURSIVE CallDepth(_)
CallDepth(v) ==
    IF v.t = "dict" THEN 1 + SetMax({0} \cup {CallDepth(v.d[k]) : k \in DOMAIN v.d})
    ELSE IF v.t = "list" THEN 1 + SetMax({0} \cup {CallDepth(v.l[i]) : i \in 1..Len(v.l)})
    ELSE 1

\* The recursion of bridge.py:72/:74 is bounded only by the interpreter: a
\* value nested deeper than the limit makes sanitize_input raise RecursionError.
SanitizeRaises(v) == CallDepth(v) > RecursionLimit

\* sanitize_input as a call: its result, or the exception it raises
SanitizeCall(v) == IF SanitizeRaises(v) THEN Raised(RecursionError) ELSE sanitize_input(v)

\* ------------------------------------------------- bridge.py: validate_input

ANALYZE == <<"a", "n", "a", "l", "y", "z", "e">>
PREDICT == <<"p", "r", "e", "d", "i", "c", "t">>
OPTIMIZE == <<"o", "p", "t", "i", "m", "i", "z", "e">>
VALIDATE == <<"v", "a", "l", "i", "d", "a", "t", "e">>
\* bridge.py:54
OPERATIONS == {ANALYZE, PREDICT, OPTIMIZE, VALIDATE}

\* Mutant of OperationErrors: membership is tested before the type, so a
\* non-string operation is reported as an invalid operation type.
OperationErrors_TypeLast(d) ==
    IF "operation" \notin DOMAIN d THEN <<"Operation is required">>
    ELSE IF d["operation"].t # "str" \/ d["operation"].s \notin OPERATIONS
    THEN <<"Invalid operation type">>
    ELSE <<>>

\* bridge.py:50-55
OperationErrors(d) ==
    IF "operation" \notin DOMAIN d THEN <<"Operation is required">>
    ELSE IF d["operation"].t # "str" THEN <<"Operation must be a string">>
    ELSE IF d["operation"].s \notin OPERATIONS THEN <<"Invalid operation type">>
    ELSE <<>>

\* bridge.py:58-59
ParamsErrors(d) ==
    IF "params" \in DOMAIN d /\ d["params"].t # "dict"
    THEN <<"Parameters must be a dictionary">>
    ELSE <<>>

\* bridge.py:40-61
validate_input(v) ==
    IF v.t # "dict"
    THEN [valid |-> FALSE, errors |-> <<"Input must be a dictionary">>]
    ELSE LET errors == OperationErrors(v.d) \o ParamsErrors(v.d)
         IN [valid |-> Len(errors) = 0, errors |-> errors]

\* ------------------------------------------------ bridge.py: process_request

Absent == [t |-> "absent"]

\* A request mapping with the given values under "operation", "params" and
\* "extra"; a key whose value is Absent is left out.
MkRequest(op, params, extra) ==
    LET val == [k \in {"operation", "params", "extra"} |->
                   IF k = "operation" THEN op ELSE IF k = "params" THEN params ELSE extra]
    IN DictV([k \in {x \in DOMAIN val : val[x] # Absent} |-> val[k]])

Call(fn, arg) == [fn |-> fn, arg |-> arg]

\* bridge.py:121-133
analyze_data(params, t) ==
    [market_trend |-> "bullish", volatility |-> "0.15", risk_score |-> "3.2",
     confidence |-> "0.85", timestamp |-> t]

\* bridge.py:139-151
predict_yield(params, t) ==
    [predicted_apy |-> "8.5", confidence_interval |-> <<"7.2", "9.8">>,
     time_horizon |-> "30d", model_accuracy |-> "0.92", timestamp |-> t]

\* bridge.py:157-173
optimize_strategy(params, t) ==
    [recommended_allocation |-> [venus |-> "0.4", beefy |-> "0.35", pancakeswap |-> "0.25"],
     expected_apy |-> "9.2", risk_score |-> "2.8", rebalance_frequency |-> "weekly",
     timestamp |-> t]

\* bridge.py:179-194
validate_strategy(params, t) ==
    [valid |-> TRUE, score |-> "8.7", warnings |-> <<>>,
     recommendations |-> <<"Consider diversifying across more protocols",
                           "Monitor gas costs during high network congestion">>,
     timestamp |-> t]

\* Mutant of ValidationFailure: only the first message is reported.
ValidationFailure_FirstOnly(errors) ==
    [success |-> FALSE, error |-> "Validation failed", details |-> SubSeq(errors, 1, 1)]

\* bridge.py:84-88
ValidationFailure(errors) ==
    [success |-> FALSE, error |-> "Validation failed", details |-> errors]

\* Mutant of ExceptionOutcome: the counter is not incremented.
ExceptionOutcome_NoCount(msg, ec, t, sofar) ==
    [response |-> [success |-> FALSE, error |-> msg, timestamp |-> t],
     error_count |-> ec,
     calls |-> sofar]

\* bridge.py:110-119: the except branch of process_request
ExceptionOutcome(msg, ec, t, sofar) ==
    [response |-> [success |-> FALSE, error |-> msg, timestamp |-> t],
     error_count |-> ec + 1,
     calls |-> sofar]

\* bridge.py:97-108: the if/elif chain on the sanitized operation
Dispatch(operation, params, ec, t, sofar) ==
    IF operation = StrV(ANALYZE)
    THEN [response |-> [success |-> TRUE, data |-> analyze_data(params, t)],
          error_count |-> ec,
          calls |-> Append(sofar, Call("analyze_data", params))]
    ELSE IF operation = StrV(PREDICT)
    THEN [response |-> [success |-> TRUE, data |-> predict_yield(params, t)],
          error_count |-> ec,
          calls |-> Append(sofar, Call("predict_yield", params))]
    ELSE IF operation = StrV(OPTIMIZE)
    THEN [response |-> [success |-> TRUE, data |-> optimize_strategy(params, t)],
          error_count |-> ec,
          calls |-> Append(sofar, Call("optimize_strategy", params))]
    ELSE IF operation = StrV(VALIDATE)
    THEN [response |-> [success |-> TRUE, data |-> validate_strategy(params, t)],
          error_count |-> ec,
          calls |-> Append(sofar, Call("validate_strategy", params))]
    ELSE [response |-> [success |-> FALSE, error |-> "Unknown operation"],
          error_count |-> ec,
          calls |-> sofar]

\* Mutant of GetParams: the default is always taken.
GetParams_AlwaysDefault(sd) == DictV(EmptyDict)

\* bridge.py:94-95: operation and params read from the sanitized request
GetParams(sd) == IF "params" \in DOMAIN sd.d THEN sd.d["params"] ELSE DictV(EmptyDict)

\* bridge.py:78-119: the response, the new error_count and the calls made by
\* process_request(d) on a bridge whose counter is ec, at time t
process_request(d, ec, t) ==
    LET v == validate_input(d)
        c1 == <<Call("validate_input", d)>>
        c2 == Append(c1, Call("sanitize_input", d))
    IN IF ~v.valid
       THEN [response |-> ValidationFailure(v.errors), error_count |-> ec, calls |-> c1]
       ELSE IF SanitizeRaises(d)
       THEN ExceptionOutcome(RecursionError, ec, t, c2)
       ELSE LET sanitized_data == sanitize_input(d)
            IN Dispatch(sanitized_data.d["operation"], GetParams(sanitized_data), ec, t, c2)

\* ------------------------------------------------------------ input values

\* A run: one character repeated; long runs reach the length limit.
Runs == {<<"a", 1>>, <<"a", LengthLimit - 1>>, <<" ", 1>>, <<"<", 1>>}

RECURSIVE StringsOfRuns(_)
StringsOfRuns(n) ==
    IF n = 0 THEN {<<>>}
    ELSE LET prev == StringsOfRuns(n - 1)
         IN prev \cup {s \o Rep(r[1], r[2]) : s \in prev, r \in Runs}

Strings ==
    StringsOfRuns(MaxRuns)
        \cup {<<"x", c, "y">> : c \in dangerous_chars}
        \cup {<<w, "x", w>> : w \in Whitespace}
        \cup OPERATIONS

\* A list nested n levels around leaf.
RECURSIVE Nest(_, _)
Nest(n, leaf) == IF n = 0 THEN leaf ELSE ListV(<<Nest(n - 1, leaf)>>)

Leaves == {StrV(<<"a">>), StrV(<<" ", "<", "b", "&", " ">>), OtherV(7),
           StrV(Rep("a", LengthLimit - 1) \o <<" ", "b">>)}

Containers ==
    {ListV(<<>>), DictV(EmptyDict)}
        \cup {ListV(<<x>>) : x \in Leaves}
        \cup {ListV(<<x, y>>) : x \in Leaves, y \in Leaves}
        \cup {DictV([k \in {"x"} |-> x]) : x \in Leaves}
        \cup {DictV([k \in {"x", "y"} |-> IF k = "x" THEN x ELSE ListV(<<y>>)]) :
                 x \in Leaves, y \in Leaves}
        \cup {Nest(n, StrV(<<"<", "a">>)) : n \in 1..RecursionLimit}

\* ---------------------------------------------------- requests of the model

OperationOptions ==
    {Absent} \cup {StrV(o) : o \in OPERATIONS}
        \cup {StrV(ANALYZE \o <<" ">>), StrV(<<"<">> \o PREDICT \o <<">">>), StrV(<<>>),
              StrV(<<"d", "e", "l", "e", "t", "e">>), OtherV(1), ListV(<<StrV(ANALYZE)>>)}

ParamsOptions ==
    {Absent, DictV(EmptyDict), OtherV(1), StrV(<<"a">>), ListV(<<>>),
     DictV([k \in {"x"} |-> StrV(<<" ", "<", "b", "&", " ">>)]),
     DictV([k \in {"x"} |-> StrV(Rep("a", LengthLimit - 1) \o <<" ", "b">>)])}
        \cup {DictV([k \in {"x"} |-> Nest(n, OtherV(1))]) :
                 n \in (RecursionLimit - 3)..(RecursionLimit - 2)}

ExtraOptions == {Absent, Nest(RecursionLimit - 1, StrV(<<"<", "z">>))}

Requests ==
    {MkRequest(op, pa, ex) : op \in OperationOptions, pa \in ParamsOptions, ex \in ExtraOptions}
        \cup {StrV(ANALYZE), OtherV(0), ListV(<<MkRequest(StrV(ANALYZE), Absent, Absent)>>)}

\* the values of the pure-function harness
Values ==
    {StrV(s) : s \in Strings} \cup {OtherV(0), OtherV(1)} \cup Containers \cup Requests

\* ------------------------------------------------------- the bridge instance

IdlePure == data = NotRun /\ once = NotRun /\ twice = NotRun /\ validation = NotRun

NoExit == [t |-> "running"]

IdleMain ==
    /\ pc = "idle"
    /\ stdin = NotRun
    /\ request_data = NotRun
    /\ stdout = <<>>
    /\ exit_code = NoExit

IdleRec ==
    /\ procs = {}
    /\ rpc = <<>>
    /\ local_memory = <<>>
    /\ file = Absent
    /\ mm_store = {}
    /\ kb_store = {}
    /\ last_call = NotRun
    /\ clock = 0

IdleBridge ==
    /\ initialized = FALSE
    /\ error_count = 0
    /\ now = 0
    /\ request = NotRun
    /\ response = NotRun
    /\ calls = <<>>

\* bridge.py:25-28 and :211
InitBridge == IdleBridge /\ IdlePure /\ IdleMain /\ IdleRec

\* bridge.py:30-38
initialize ==
    /\ initialized' = TRUE
    /\ UNCHANGED <<error_count, now, request, response, calls, pureVars, mainVars, recVars>>

\* one call process_request(d) on the instance
ProcessRequest ==
    /\ now < MaxCalls
    /\ \E d \in Requests :
          LET r == process_request(d, error_count, now)
          IN /\ request' = d
             /\ response' = r.response
             /\ error_count' = r.error_count
             /\ calls' = r.calls
    /\ now' = now + 1
    /\ UNCHANGED <<initialized, pureVars, mainVars, recVars>>

Next == initialize \/ ProcessRequest

Spec == InitBridge /\ [][Next]_vars

\* ------------------------------------------------------- bridge.py: main

\* Nesting json.loads tolerates before it raises RecursionError itself. The
\* parser nests fewer interpreter frames per level than sanitize_input, so a
\* document can parse and still be too deep to sanitize.
JsonDepthLimit == RecursionLimit + 1

\* Standard input: nothing, only whitespace, text that is no JSON document,
\* or the text of the JSON document doc.
Stdins ==
    {[kind |-> "empty"], [kind |-> "blank"], [kind |-> "garbage"]}
        \cup {[kind |-> "json", doc |-> v] : v \in Requests}
        \cup {[kind |-> "json", doc |-> Nest(n, OtherV(1))] :
                 n \in JsonDepthLimit..(JsonDepthLimit + 1)}

\* bridge.py:223-224: sys.stdin.read().strip() is empty
NoInput(text) == text.kind \in {"empty", "blank"}

\* bridge.py:230: json.loads(input_data): the document, or the exception
json_loads(text) ==
    IF text.kind # "json" THEN Raised("JSONDecodeError")
    ELSE IF CallDepth(text.doc) > JsonDepthLimit THEN Raised(RecursionError)
    ELSE text.doc

\* print(json.dumps(doc)); sys.exit(1): SystemExit is no Exception, so the
\* except clause of bridge.py:242 does not catch it
PrintAndExit(doc) ==
    /\ stdout' = Append(stdout, doc)
    /\ exit_code' = 1
    /\ pc' = "exited"

\* bridge.py:242-249: an Exception escaping the body of main
MainExcept(msg) == PrintAndExit([success |-> FALSE, error |-> msg, timestamp |-> now])

\* bridge.py:211 and the state in which asyncio.run(main()) starts
InitMain ==
    /\ IdlePure
    /\ IdleRec
    /\ initialized = FALSE
    /\ error_count = 0
    /\ now \in 0..1
    /\ request = NotRun
    /\ response = NotRun
    /\ calls = <<>>
    /\ pc = "start"
    /\ stdin \in Stdins
    /\ request_data = NotRun
    /\ stdout = <<>>
    /\ exit_code = NoExit

\* bridge.py:217-220 (initialize, bridge.py:30-38, sets the flag and reports
\* success; its except branch is reached by no statement of its try block)
MainInitialize ==
    /\ pc = "start"
    /\ initialized' = TRUE
    /\ LET init_result == [success |-> TRUE, message |-> "Bridge initialized successfully"]
       IN IF ~init_result.success
          THEN PrintAndExit(init_result)
          ELSE pc' = "read" /\ UNCHANGED <<stdout, exit_code>>
    /\ UNCHANGED <<error_count, now, request, response, calls, stdin, request_data, pureVars, recVars>>

\* bridge.py:223-226
MainRead ==
    /\ pc = "read"
    /\ IF NoInput(stdin)
       THEN PrintAndExit([success |-> FALSE, error |-> "No input provided"])
       ELSE pc' = "parse" /\ UNCHANGED <<stdout, exit_code>>
    /\ UNCHANGED <<bridgeVars, stdin, request_data, pureVars, recVars>>

\* bridge.py:229-236, and :242-249 for an exception that is no JSONDecodeError
MainParse ==
    /\ pc = "parse"
    /\ LET parsed == json_loads(stdin)
       IN IF parsed = Raised("JSONDecodeError")
          THEN /\ PrintAndExit([success |-> FALSE, error |-> "Invalid JSON"])
               /\ UNCHANGED request_data
          ELSE IF parsed.t = "raised"
          THEN MainExcept(parsed.error) /\ UNCHANGED request_data
          ELSE /\ request_data' = parsed
               /\ pc' = "process"
               /\ UNCHANGED <<stdout, exit_code>>
    /\ UNCHANGED <<bridgeVars, stdin, pureVars, recVars>>

\* Mutant of ExitAfterResult: a failure response exits 1.
ExitAfterResult_FailureExits1(result) == IF result.success THEN 0 ELSE 1

\* Exit status when main returns after printing the result (bridge.py:240, :252)
ExitAfterResult(result) == 0

\* bridge.py:239-240: process the request, print the result, return
MainProcess ==
    /\ pc = "process"
    /\ LET r == process_request(request_data, error_count, now)
       IN /\ request' = request_data
          /\ response' = r.response
          /\ error_count' = r.error_count
          /\ calls' = r.calls
          /\ stdout' = Append(stdout, r.response)
          /\ exit_code' = ExitAfterResult(r.response)
    /\ pc' = "exited"
    /\ UNCHANGED <<initialized, now, stdin, request_data, pureVars, recVars>>

NextMain == MainInitialize \/ MainRead \/ MainParse \/ MainProcess

SpecMain == InitMain /\ [][NextMain]_vars

\* ------------------------------------------------------- agent_memory.py

Wallets == {"0xABC", "0xDEF"}
DEPOSIT == <<"D", "e", "p", "o", "s", "i", "t">>
WITHDRAW == <<"W", "I", "T", "H", "D", "R", "A", "W">>
Actions == {DEPOSIT, WITHDRAW}
Strategies == {"auto_yield"}
Amounts == {"0.005"}

\* str.lower() on one character (the letters the actions use)
LowerChar(c) ==
    CASE c = "A" -> "a" [] c = "D" -> "d" [] c = "H" -> "h" [] c = "I" -> "i"
      [] c = "R" -> "r" [] c = "T" -> "t" [] c = "W" -> "w" [] OTHER -> c

\* agent_memory.py:44: action.lower()
Lower(s) == [i \in 1..Len(s) |-> LowerChar(s[i])]

\* agent_memory.py:36-46: the Message; its content is the f-string of line 38,
\* kept as the sequence of its parts
Message(wallet, action, strategy, amount) ==
    [name |-> "AinonAgent",
     content |-> <<"User performed ", action, " of ", amount, " BNB with strategy ", strategy>>,
     role |-> "assistant",
     metadata |-> [wallet |-> wallet, strategy |-> strategy, amount |-> amount,
                   last_action |-> Lower(action)]]

\* agent_memory.py:50-53
Document(wallet, action, strategy, amount) ==
    [content |-> <<"Executed ", strategy, " strategy via ", action, " of ", amount, " BNB">>,
     metadata |-> [wallet |-> wallet, action |-> action, source |-> "AinonAgent"]]

\* agent_memory.py:57-66
Event(msg, t) ==
    [content |-> msg.content, role |-> msg.role, metadata |-> msg.metadata, created_at |-> t]

\* Mutant of AppendEvent: the wallet's list is replaced by the new event.
AppendEvent_Replaces(mem, wallet, event) ==
    [w \in DOMAIN mem \cup {wallet} |-> IF w = wallet THEN <<event>> ELSE mem[w]]

\* agent_memory.py:68-71
AppendEvent(mem, wallet, event) ==
    [w \in DOMAIN mem \cup {wallet} |->
        IF w = wallet
        THEN Append(IF wallet \in DOMAIN mem THEN mem[wallet] ELSE <<>>, event)
        ELSE mem[w]]

\* json.dump (agent_memory.py:74): the JSON object, as its set of members
\* <<key, array>>
JsonDump(mem) == [t |-> "json", members |-> {<<w, mem[w]>> : w \in DOMAIN mem}]

\* json.load (agent_memory.py:29): the dict of a JSON object
JsonLoad(text) ==
    [w \in {m[1] : m \in text.members} |-> (CHOOSE m \in text.members : m[1] = w)[2]]

\* Mutant of FileAfterWrite: the file is opened for appending, so what it
\* held stays.
FileAfterWrite_Keeps(old, mem) ==
    IF old = Absent THEN JsonDump(mem)
    ELSE [t |-> "json", members |-> old.members \cup JsonDump(mem).members]

\* agent_memory.py:73-74: open(MEMORY_JSON_PATH, "w") discards what the file
\* held; the whole of local_memory is written
FileAfterWrite(old, mem) == JsonDump(mem)

\* Mutant of CallOutcome: the collaborator calls are wrapped in try/except.
CallOutcome_Swallows(fault) == "returned"

\* agent_memory.py:47 and :54 stand in no try block: an exception raised by
\* mm.add or kb.add_documents leaves save_to_membase
CallOutcome(fault) == IF fault = "none" THEN "returned" ELSE "raised"

\* A log a previous run may have left in the file.
EarlierLog ==
    [w \in {"0xABC"} |-> <<Event(Message("0xABC", DEPOSIT, "auto_yield", "0.005"), 0)>>]

InitRecorder(ps) ==
    /\ IdlePure /\ IdleBridge /\ IdleMain
    /\ procs = ps
    /\ rpc = [p \in ps |-> "start"]
    /\ local_memory = [p \in ps |-> <<>>]
    /\ file \in {Absent, JsonDump(EarlierLog)}
    /\ mm_store = {}
    /\ kb_store = {}
    /\ last_call = NotRun
    /\ clock = 1

\* agent_memory.py:27-31: the module is loaded as the process starts
Load(p) ==
    /\ rpc[p] = "start"
    /\ rpc' = [rpc EXCEPT ![p] = "loaded"]
    /\ local_memory' = [local_memory EXCEPT ![p] = IF file = Absent THEN <<>> ELSE JsonLoad(file)]
    /\ UNCHANGED <<procs, file, mm_store, kb_store, last_call, clock, pureVars, bridgeVars, mainVars>>

\* agent_memory.py:34-77: one call in process p; fault names the collaborator
\* call that raises, if one does
save_to_membase(p, wallet, action, strategy, amount, fault) ==
    LET msg == Message(wallet, action, strategy, amount)
        doc == Document(wallet, action, strategy, amount)
        event == Event(msg, clock)
        mem == AppendEvent(local_memory[p], wallet, event)
    IN /\ rpc[p] = "loaded"
       /\ clock <= MaxSaves
       /\ clock' = clock + 1
       /\ last_call' = [proc |-> p, fault |-> fault, outcome |-> CallOutcome(fault)]
       /\ mm_store' = IF fault = "mm" THEN mm_store ELSE mm_store \cup {<<wallet, msg>>}
       /\ kb_store' = IF fault = "none" THEN kb_store \cup {doc} ELSE kb_store
       /\ IF fault = "none"
          THEN /\ local_memory' = [local_memory EXCEPT ![p] = mem]
               /\ file' = FileAfterWrite(file, mem)
          ELSE UNCHANGED <<local_memory, file>>
       /\ UNCHANGED <<procs, rpc, pureVars, bridgeVars, mainVars>>

Save ==
    \E p \in procs, wallet \in Wallets, action \in Actions, strategy \in Strategies,
       amount \in Amounts, fault \in {"none", "mm", "kb"} :
        save_to_membase(p, wallet, action, strategy, amount, fault)

NextRec == (\E p \in procs : Load(p)) \/ Save

\* one recorder process
SpecRec == InitRecorder({1}) /\ [][NextRec]_vars

\* two recorder processes sharing ./memory.json
SpecRace == InitRecorder({1, 2}) /\ [][NextRec]_vars

\* ------------------------------------------------ pure-function harness

InitPure ==
    /\ data \in Values
    /\ once = NotRun
    /\ twice = NotRun
    /\ validation = NotRun
    /\ IdleBridge
    /\ IdleMain
    /\ IdleRec

\* once := sanitize_input(data)
Sanitize ==
    /\ once = NotRun
    /\ once' = SanitizeCall(data)
    /\ UNCHANGED <<data, twice, validation, bridgeVars, mainVars, recVars>>

\* twice := sanitize_input(once)
SanitizeAgain ==
    /\ once \notin {NotRun, Raised(RecursionError)}
    /\ twice = NotRun
    /\ twice' = SanitizeCall(once)
    /\ UNCHANGED <<data, once, validation, bridgeVars, mainVars, recVars>>

\* validation := validate_input(data)
Validate ==
    /\ validation = NotRun
    /\ validation' = validate_input(data)
    /\ UNCHANGED <<data, once, twice, bridgeVars, mainVars, recVars>>

NextPure == Sanitize \/ SanitizeAgain \/ Validate

SpecPure == InitPure /\ [][NextPure]_vars

\* =================================================================== claims

Range(f) == {f[i] : i \in DOMAIN f}
Handlers == {"analyze_data", "predict_yield", "optimize_strategy", "validate_strategy"}
HandlerCalls == SelectSeq(calls, LAMBDA c : c.fn \in Handlers)
SixCharacters == {"<", ">", "&", "\"", "'", "GRAVE"}
FourNames == {<<"a", "n", "a", "l", "y", "z", "e">>, <<"p", "r", "e", "d", "i", "c", "t">>,
              <<"o", "p", "t", "i", "m", "i", "z", "e">>, <<"v", "a", "l", "i", "d", "a", "t", "e">>}

\* The request passes validation: a mapping whose operation is one of the four
\* names and whose params, if present, is a mapping.
PassesValidation(r) ==
    /\ r.t = "dict"
    /\ "operation" \in DOMAIN r.d
    /\ r.d["operation"].t = "str"
    /\ r.d["operation"].s \in FourNames
    /\ ("params" \in DOMAIN r.d => r.d["params"].t = "dict")

\* C1: a request for which validate_input reports errors gets exactly the
\* response {success: false, error: "Validation failed", details: errors}, and
\* neither sanitize_input nor a handler is invoked for it; a mapping without
\* `operation` has "Operation is required" among the details, and a request
\* that is no mapping fails too.
C1_InvalidRequestNeverDispatched ==
    (request # NotRun /\ validate_input(request).errors # <<>>) =>
        /\ response = [success |-> FALSE, error |-> "Validation failed",
                       details |-> validate_input(request).errors]
        /\ \A i \in 1..Len(calls) : calls[i].fn \notin Handlers \cup {"sanitize_input"}
        /\ (request.t = "dict" /\ "operation" \notin DOMAIN request.d
               => "Operation is required" \in Range(response.details))
        /\ (~PassesValidation(request) => response.details # <<>>)

\* C1 witness: a mapping without operation and with a non-mapping params was
\* rejected with both messages.
C1_Witness ==
    /\ request # NotRun
    /\ request.t = "dict"
    /\ "operation" \notin DOMAIN request.d
    /\ response = [success |-> FALSE, error |-> "Validation failed",
                   details |-> <<"Operation is required", "Parameters must be a dictionary">>]

HandlerFor(name) ==
    IF name = <<"a", "n", "a", "l", "y", "z", "e">> THEN "analyze_data"
    ELSE IF name = <<"p", "r", "e", "d", "i", "c", "t">> THEN "predict_yield"
    ELSE IF name = <<"o", "p", "t", "i", "m", "i", "z", "e">> THEN "optimize_strategy"
    ELSE "validate_strategy"

PayloadKeys(handler) ==
    IF handler = "analyze_data"
    THEN {"market_trend", "volatility", "risk_score", "confidence", "timestamp"}
    ELSE IF handler = "predict_yield"
    THEN {"predicted_apy", "confidence_interval", "time_horizon", "model_accuracy", "timestamp"}
    ELSE IF handler = "optimize_strategy"
    THEN {"recommended_allocation", "expected_apy", "risk_score", "rebalance_frequency",
          "timestamp"}
    ELSE {"valid", "score", "warnings", "recommendations", "timestamp"}

\* What the handler must receive: the sanitized params, or an empty mapping.
ExpectedParams(r) ==
    IF "params" \in DOMAIN r.d THEN sanitize_input(r.d["params"]) ELSE DictV(EmptyDict)

DispatchedToOwnHandler(r) ==
    /\ HandlerCalls = <<Call(HandlerFor(r.d["operation"].s), ExpectedParams(r))>>
    /\ DOMAIN response = {"success", "data"}
    /\ response.success = TRUE
    /\ DOMAIN response.data = PayloadKeys(HandlerFor(r.d["operation"].s))

\* C2 as stated: every request that passes validation is dispatched to exactly
\* the handler of its original operation, with the sanitized params, and
\* answered {success: true, data: <handler result>}; "Unknown operation" is
\* never answered.
C2_Original_EveryValidRequestSucceeds ==
    /\ (request # NotRun /\ PassesValidation(request)) => DispatchedToOwnHandler(request)
    /\ response # [success |-> FALSE, error |-> "Unknown operation"]

\* C2 amended: the same, for every request that passes validation and that
\* sanitize_input can sanitize without exhausting the recursion limit; a
\* valid request nested too deeply reaches no handler and is answered by the
\* exception response. "Unknown operation" is never answered.
C2_ValidRequestDispatched ==
    /\ (request # NotRun /\ PassesValidation(request)) =>
          IF SanitizeRaises(request)
          THEN /\ HandlerCalls = <<>>
               /\ DOMAIN response = {"success", "error", "timestamp"}
               /\ response.success = FALSE
          ELSE DispatchedToOwnHandler(request)
    /\ response # [success |-> FALSE, error |-> "Unknown operation"]

\* C2 witness: a valid request whose params hold a string that sanitization
\* changes was dispatched with the changed params.
C2_Witness ==
    /\ request # NotRun
    /\ PassesValidation(request)
    /\ "params" \in DOMAIN request.d
    /\ Len(HandlerCalls) = 1
    /\ HandlerCalls[1].arg # request.d["params"]
    /\ HandlerCalls[1].fn = "predict_yield"
    /\ response.success

IsExceptionResponse(r) ==
    /\ DOMAIN r = {"success", "error", "timestamp"}
    /\ r.success = FALSE

\* C5: error_count never decreases; a process_request call (the clock ticks)
\* adds 0 or 1 to it, and adds 1 exactly when an exception was raised after
\* validation, in which case the call returns {success: false, error,
\* timestamp}; successful calls and validation failures leave it unchanged,
\* and so does every other step.
C5_ErrorCountStep ==
    [][/\ error_count' \in {error_count, error_count + 1}
       /\ (now' = now => error_count' = error_count)
       /\ (now' # now =>
              /\ (error_count' = error_count + 1) = IsExceptionResponse(response')
              /\ IsExceptionResponse(response')
                    = (PassesValidation(request') /\ SanitizeRaises(request'))
              /\ (response'.success \/ response'.error = "Validation failed"
                     => error_count' = error_count))]_vars

\* C5 witness: two failed calls have been counted.
C5_Witness ==
    /\ error_count = 2
    /\ response # NotRun
    /\ IsExceptionResponse(response)

\* C6: main never prints more than one document, prints nothing before it
\* ends, and ends having printed exactly one; it exits 1 when there is no
\* input or the input cannot be parsed (not JSON, or an exception other than
\* JSONDecodeError escapes json.loads), and 0 otherwise, also when the
\* printed response reports a failure.
C6_OneDocumentAndExitCode ==
    /\ Len(stdout) <= 1
    /\ (pc \in {"start", "read", "parse", "process"} => stdout = <<>> /\ exit_code = NoExit)
    /\ (pc = "exited" =>
          /\ Len(stdout) = 1
          /\ exit_code \in {0, 1}
          /\ (exit_code = 1) = (NoInput(stdin) \/ json_loads(stdin).t = "raised")
          /\ (exit_code = 1 => stdout[1].success = FALSE))

\* C6 witness: main exited 0 after printing a response that reports a failure
\* raised while the request was processed.
C6_Witness ==
    /\ pc = "exited"
    /\ exit_code = 0
    /\ Len(stdout) = 1
    /\ IsExceptionResponse(stdout[1])

\* C3: sanitizing a sanitized value changes nothing.
C3_SanitizeIdempotent == (twice # NotRun) => twice = once

RECURSIVE SameStructure(_, _)
SameStructure(a, b) ==
    /\ a.t = b.t
    /\ IF a.t = "dict"
       THEN /\ DOMAIN a.d = DOMAIN b.d
            /\ \A k \in DOMAIN a.d : SameStructure(a.d[k], b.d[k])
       ELSE IF a.t = "list"
       THEN /\ Len(a.l) = Len(b.l)
            /\ \A i \in 1..Len(a.l) : SameStructure(a.l[i], b.l[i])
       ELSE IF a.t = "str" THEN TRUE
       ELSE a = b

RECURSIVE LeavesClean(_)
LeavesClean(v) ==
    IF v.t = "str"
    THEN Len(v.s) <= 1000 /\ \A i \in 1..Len(v.s) : v.s[i] \notin SixCharacters
    ELSE IF v.t = "dict" THEN \A k \in DOMAIN v.d : LeavesClean(v.d[k])
    ELSE IF v.t = "list" THEN \A i \in 1..Len(v.l) : LeavesClean(v.l[i])
    ELSE TRUE

\* C4: the result of sanitize_input has the structure of its input (same
\* keys, same lengths and order, other values unchanged), and each of its
\* string leaves holds none of the six characters and at most 1000 characters.
C4_SanitizeStructureAndLeaves ==
    (once # NotRun /\ once.t # "raised") => SameStructure(data, once) /\ LeavesClean(once)

\* C4 witness: a mapping holding an over-long string and a list with a dirty
\* string was sanitized, and both leaves changed.
C4_Witness ==
    /\ once # NotRun
    /\ data.t = "dict"
    /\ DOMAIN data.d = {"x", "y"}
    /\ data.d["x"].t = "str"
    /\ Len(data.d["x"].s) > 1000
    /\ once.d["x"] # data.d["x"]
    /\ once.d["y"] # data.d["y"]

OperationMessages ==
    {"Operation is required", "Operation must be a string", "Invalid operation type"}

\* C10: valid is (errors is empty); a non-mapping yields exactly "Input must
\* be a dictionary"; a mapping yields at most one operation message, "Operation
\* is required" when the key is absent, else "Operation must be a string" when
\* the value is no string, else "Invalid operation type" when it is none of the
\* four names, followed by "Parameters must be a dictionary" exactly when
\* params is present and no mapping.
C10_ValidateInputErrors ==
    (validation # NotRun) =>
        LET e == validation.errors
            msgs == Range(e)
        IN /\ validation.valid = (e = <<>>)
           /\ (data.t # "dict" => e = <<"Input must be a dictionary">>)
           /\ (data.t = "dict" =>
                 LET d == data.d
                     hasOp == "operation" \in DOMAIN d
                     badParams == "params" \in DOMAIN d /\ d["params"].t # "dict"
                 IN /\ Cardinality({i \in 1..Len(e) : e[i] \in OperationMessages}) <= 1
                    /\ ("Operation is required" \in msgs) = ~hasOp
                    /\ ("Operation must be a string" \in msgs)
                          = (hasOp /\ d["operation"].t # "str")
                    /\ ("Invalid operation type" \in msgs)
                          = (hasOp /\ d["operation"].t = "str"
                                /\ d["operation"].s \notin FourNames)
                    /\ ("Parameters must be a dictionary" \in msgs) = badParams
                    /\ (badParams => e[Len(e)] = "Parameters must be a dictionary")
                    /\ msgs \subseteq OperationMessages \cup {"Parameters must be a dictionary"}
                    /\ Len(e) = Cardinality(msgs))

\* C10 witness: a string operation outside the four names, with a non-mapping
\* params, was validated.
C10_Witness ==
    /\ validation # NotRun
    /\ data.t = "dict"
    /\ "operation" \in DOMAIN data.d
    /\ data.d["operation"].t = "str"
    /\ validation = [valid |-> FALSE,
                     errors |-> <<"Invalid operation type", "Parameters must be a dictionary">>]

IsPrefix(a, b) == Len(a) <= Len(b) /\ SubSeq(b, 1, Len(a)) = a
UpperLetters == {"A", "D", "H", "I", "R", "T", "W"}

\* The latest step was a call of save_to_membase that returned.
SavedStep == clock' # clock /\ last_call'.outcome = "returned"

\* C7: in one recorder process, a save_to_membase call whose collaborator
\* calls succeed appends exactly one event at the end of LocalLog[wallet]
\* (creating the key if absent) whose metadata.last_action is the lowercased
\* action; every event recorded before stays where it was, in every wallet;
\* afterwards the file holds the whole in-memory log. No step removes or
\* changes a recorded event.
C7_SaveAppendsOneEvent ==
    [][/\ \A p \in procs : rpc[p] = "loaded" =>
             \A w \in DOMAIN local_memory[p] :
                 /\ w \in DOMAIN local_memory'[p]
                 /\ IsPrefix(local_memory[p][w], local_memory'[p][w])
       /\ SavedStep =>
             LET p == last_call'.proc
                 old == local_memory[p]
                 new == local_memory'[p]
             IN /\ \E w \in Wallets :
                      LET before == IF w \in DOMAIN old THEN old[w] ELSE <<>>
                          e == new[w][Len(new[w])]
                      IN /\ DOMAIN new = DOMAIN old \cup {w}
                         /\ Len(new[w]) = Len(before) + 1
                         /\ SubSeq(new[w], 1, Len(before)) = before
                         /\ \A w2 \in DOMAIN old \ {w} : new[w2] = old[w2]
                         /\ e.metadata.wallet = w
                         /\ Len(e.metadata.last_action) = Len(e.content[2])
                         /\ \A i \in 1..Len(e.metadata.last_action) :
                                e.metadata.last_action[i] \notin UpperLetters
                         /\ (e.content[2] = <<"D", "e", "p", "o", "s", "i", "t">>
                                => e.metadata.last_action = <<"d", "e", "p", "o", "s", "i", "t">>)
                         /\ (e.content[2] = <<"W", "I", "T", "H", "D", "R", "A", "W">>
                                => e.metadata.last_action
                                       = <<"w", "i", "t", "h", "d", "r", "a", "w">>)
                /\ file' # Absent
                /\ JsonLoad(file') = new]_vars

\* C7 witness: two events recorded by the process for one wallet stand in the
\* order of their recording, after an event of an earlier run, and the file
\* holds the log.
C7_Witness ==
    /\ procs = {1}
    /\ rpc[1] = "loaded"
    /\ "0xABC" \in DOMAIN local_memory[1]
    /\ Len(local_memory[1]["0xABC"]) = 3
    /\ local_memory[1]["0xABC"][2].created_at < local_memory[1]["0xABC"][3].created_at
    /\ local_memory[1]["0xABC"][2].metadata.last_action
           = <<"w", "i", "t", "h", "d", "r", "a", "w">>
    /\ file # Absent
    /\ JsonLoad(file) = local_memory[1]

\* C8 as stated: when mm.add or kb.add_documents fails, save_to_membase
\* surfaces no error to its caller.
C8_Original_FaultNotSurfaced ==
    (last_call # NotRun /\ last_call.fault # "none") => last_call.outcome = "returned"

\* C8 amended: when mm.add or kb.add_documents fails, the exception leaves
\* save_to_membase and reaches the caller; LocalLog and the log file stay as
\* they were, the knowledge base receives nothing, and the durable memory has
\* received the message only if it was the knowledge base that failed.
C8_FaultPropagates ==
    [][(clock' # clock /\ last_call'.fault # "none") =>
          /\ last_call'.outcome = "raised"
          /\ local_memory' = local_memory
          /\ file' = file
          /\ kb_store' = kb_store
          /\ (last_call'.fault = "mm" => mm_store' = mm_store)
          /\ (last_call'.fault = "kb" => mm_store \subseteq mm_store'
                                           /\ Cardinality(mm_store' \ mm_store) <= 1)]_vars

\* C8 witness: after an event was recorded, a call failed in the knowledge
\* base and the fault reached the caller.
C8_Witness ==
    /\ last_call # NotRun
    /\ last_call.fault = "kb"
    /\ last_call.outcome = "raised"
    /\ rpc[last_call.proc] = "loaded"
    /\ DOMAIN local_memory[last_call.proc] # {}
    /\ mm_store # {}

EventsOf(mem) == UNION {{<<w, mem[w][i]>> : i \in 1..Len(mem[w])} : w \in DOMAIN mem}
EventsInFile == IF file = Absent THEN {} ELSE EventsOf(JsonLoad(file))

\* C9: each recording process rewrites the file from its own in-memory log:
\* after a save_to_membase call of p returns, the file holds exactly the
\* events p holds, so an event another process recorded is in the file only
\* if p had it in memory (the last writer wins).
C9_LastWriterWins ==
    [][SavedStep =>
          LET p == last_call'.proc
          IN /\ file' # Absent
             /\ EventsOf(JsonLoad(file')) = EventsOf(local_memory'[p])
             /\ \A q \in procs \ {p} :
                    \A x \in EventsOf(local_memory'[q]) :
                        (x \in EventsOf(JsonLoad(file'))) = (x \in EventsOf(local_memory'[p]))]_vars

\* C9 witness: both processes loaded the file and each recorded an event; the
\* file holds the event of the last writer and has lost the event the other
\* process recorded and wrote before.
C9_Witness ==
    /\ procs = {1, 2}
    /\ last_call # NotRun
    /\ last_call.outcome = "returned"
    /\ \E q \in procs \ {last_call.proc} :
          /\ rpc[q] = "loaded"
          /\ \E x \in EventsOf(local_memory[q]) :
                /\ x[2].created_at > 0
                /\ x \notin EventsInFile
    /\ \E y \in EventsOf(local_memory[last_call.proc]) :
          y[2].created_at > 0 /\ y \in EventsInFile

====
